---- MODULE Spec2Model ----
(***************************************************************************)
(* Model of src/database/database.rs: the Database (writer mutex, store    *)
(* handle, atomically swappable published view), its constructors create   *)
(* and open, and the merge operator merge_indexes registered on the store. *)
(*                                                                         *)
(* Three specifications share the module:                                  *)
(*   Spec       an open Database used by concurrent writers and readers    *)
(*   SpecLife   create / open / drop of a Database on one path             *)
(*   SpecMerge  the merge operator as a pure function of its inputs        *)
(***************************************************************************)
EXTENDS Integers, Sequences, FiniteSets, TLC

VARIABLES
    \* ---- Spec: one open Database ----
    store,      \* the live store behind Database.db
    snaps,      \* every Snapshot taken so far, in creation order
    view,       \* Database.view: index in snaps of the published view
    lock,       \* holder of the Mutex around db, 0 when free
    poisoned,   \* the Mutex is poisoned (a holder panicked)
    pc,         \* position of each writer thread
    upd,        \* the Update a writer is ingesting, 0 when none
    snap,       \* a writer's local `snapshot`, index in snaps, 0 when none
    nextUpd,    \* next fresh update id
    okUpd,      \* updates whose ingest_update_file returned Ok(())
    errUpd,     \* updates whose ingest_update_file returned Err
    held,       \* the view each reader got from view(), 0 when none
    poisonErr,  \* calls that returned the PoisonError: <<"ingest", update>>, <<"flush", writer>>
    applied,    \* history: the updates ingested into the store, in that order
    precedes,   \* history: <<u, v>> when u's call had returned before v's was made
    \* ---- SpecLife: one path on disk ----
    disk,       \* what is stored at the path
    cpc,        \* position of each caller of create / open
    carg,       \* schema argument of the running create
    cres,       \* result of each caller's last call
    \* ---- SpecMerge ----
    mOps,       \* the operands B1..Bn, serialized
    mSplit,     \* the split point k
    mOne,       \* result of the single pass
    mTwo,       \* result of the two passes
    mKey        \* key the operator is invoked for

dbvars    == <<store, snaps, view, lock, poisoned, pc, upd, snap, nextUpd,
               okUpd, errUpd, held, poisonErr, applied, precedes>>
lifevars  == <<disk, cpc, carg, cres>>
mergevars == <<mOps, mSplit, mOne, mTwo, mKey>>
vars      == <<dbvars, lifevars, mergevars>>

----------------------------------------------------------------------------
\* Bounds of the model
NumWriters == 2     \* writer threads
NumReaders == 1     \* reader threads
MaxUpdates == 2     \* updates ever handed to ingest_update_file
NumCallers == 2     \* threads calling create / open on the path
MaxOps     == 3     \* operands given to the merge operator
MaxOpsBadKey == 2   \* operands given to the merge operator invoked for another key

Writers == 1..NumWriters
Readers == 1..NumReaders
Callers == 1..NumCallers
Updates == 1..MaxUpdates

\* Reserved keys (crate::database::{DATA_INDEX, DATA_SCHEMA})
\* Keys are byte strings: the two reserved ones, and one per document id
DATA_INDEX  == <<"data-index">>
DATA_SCHEMA == <<"data-schema">>
DocKey(d)   == <<"doc", d>>

\* Option<T> as a sequence of length 0 or 1; a panic as a value no byte string equals
None  == <<>>
Some(x) == <<x>>
PANIC == <<-1>>

----------------------------------------------------------------------------
\* Blob algebra and its serialization

Words     == {1, 2}
MergeDocs == {1, 2}

\* A posting (word, document) as one number, ordered by word then document.
Posting(w, d) == w * 10 + d
DocOf(p) == p % 10

RECURSIVE SortedSeq(_)
SortedSeq(S) ==
    IF S = {} THEN <<>>
    ELSE LET m == CHOOSE x \in S : \A y \in S : x <= y
         IN  <<m>> \o SortedSeq(S \ {m})

Range(s) == {s[i] : i \in 1..Len(s)}

\* bincode of a PositiveBlob / NegativeBlob: length prefix, then the sorted entries
SerializeSet(S) == <<Cardinality(S)>> \o SortedSeq(S)

WellFormed(bytes) ==
    /\ Len(bytes) >= 1
    /\ bytes[1] = Len(bytes) - 1
    /\ \A i \in 2..(Len(bytes) - 1) : bytes[i] < bytes[i + 1]

DeserializeSet(bytes) == {bytes[i] : i \in 2..Len(bytes)}

\* Blob: a sign tag followed by the payload
TagPositive == 0
TagNegative == 1

Positive(S) == [sign |-> "Positive", set |-> S]
Negative(S) == [sign |-> "Negative", set |-> S]

SerializeBlob(b) ==
    <<IF b.sign = "Positive" THEN TagPositive ELSE TagNegative>> \o SerializeSet(b.set)

WellFormedBlob(bytes) ==
    Len(bytes) >= 2 /\ bytes[1] \in {TagPositive, TagNegative} /\ WellFormed(Tail(bytes))

DeserializeBlob(bytes) ==
    [sign |-> IF bytes[1] = TagPositive THEN "Positive" ELSE "Negative",
     set  |-> DeserializeSet(Tail(bytes))]

\* blob::OpBuilder::merge: fold the pushed blobs, in order, into one positive
\* blob; a Positive blob adds its postings, a Negative blob removes every
\* posting of the documents it names.
RECURSIVE OpMergeFrom(_, _)
OpMergeFrom(acc, blobs) ==
    IF blobs = <<>> THEN acc
    ELSE LET b == Head(blobs)
             nxt == IF b.sign = "Positive"
                    THEN acc \cup b.set
                    ELSE {p \in acc : DocOf(p) \notin b.set}
         IN  OpMergeFrom(nxt, Tail(blobs))

OpMerge(blobs) == OpMergeFrom({}, blobs)

\* The expect("BUG: ...") calls of merge_indexes: every input deserializes
Deserializable(existing_value, operands) ==
    /\ existing_value # None => WellFormed(existing_value[1])
    /\ \A i \in 1..Len(operands) : WellFormedBlob(operands[i])

\* merge_indexes with the existing value dropped
merge_indexes_noexisting(key, existing_value, operands) ==
    IF key # DATA_INDEX \/ ~Deserializable(existing_value, operands) THEN PANIC
    ELSE LET ops == [i \in 1..Len(operands) |-> DeserializeBlob(operands[i])]
         IN  SerializeSet(OpMerge(ops))

\* merge_indexes without the check of the key
merge_indexes_anykey(key, existing_value, operands) ==
    IF ~Deserializable(existing_value, operands) THEN PANIC
    ELSE LET ex  == IF existing_value = None THEN <<>>
                    ELSE <<Positive(DeserializeSet(existing_value[1]))>>
             ops == [i \in 1..Len(operands) |-> DeserializeBlob(operands[i])]
         IN  SerializeSet(OpMerge(ex \o ops))

\* merge_indexes pushing the existing value after the operands
merge_indexes_existinglast(key, existing_value, operands) ==
    IF key # DATA_INDEX \/ ~Deserializable(existing_value, operands) THEN PANIC
    ELSE LET ex  == IF existing_value = None THEN <<>>
                    ELSE <<Positive(DeserializeSet(existing_value[1]))>>
             ops == [i \in 1..Len(operands) |-> DeserializeBlob(operands[i])]
         IN  SerializeSet(OpMerge(ops \o ex))

\* fn merge_indexes(key, existing_value, operands) -> Vec<u8>
merge_indexes(key, existing_value, operands) ==
    IF key # DATA_INDEX \/ ~Deserializable(existing_value, operands) THEN PANIC
    ELSE LET ex  == IF existing_value = None THEN <<>>
                    ELSE <<Positive(DeserializeSet(existing_value[1]))>>
             ops == [i \in 1..Len(operands) |-> DeserializeBlob(operands[i])]
         IN  SerializeSet(OpMerge(ex \o ops))

----------------------------------------------------------------------------
\* The key-value store behind Database.db

NoSchema == 0

\* A store: the schema entry, the merged value and the pending merge operands
\* of the data-index key, and the document records present.
EmptyStore == [schema |-> NoSchema, index |-> None, pending |-> <<>>, docs |-> {}]

\* db.put(DATA_SCHEMA, schema_bytes)
PutSchema(s, schema) == [s EXCEPT !.schema = schema]

\* The external file built for update u: the record of document u and one
\* merge operand for DATA_INDEX holding a Positive blob with u's posting.
UpdateOperand(u) == SerializeBlob(Positive({Posting(1, u)}))

\* ingest_external_file of a file that also carries a record for DATA_SCHEMA
IngestExternalFile_schema(s, u) ==
    [s EXCEPT !.docs = @ \cup {u}, !.pending = Append(@, UpdateOperand(u)),
              !.schema = @ + u]

\* db.ingest_external_file_optimized(&cf_handle, &options, &[&path])
IngestExternalFile(s, u) ==
    [s EXCEPT !.docs = @ \cup {u}, !.pending = Append(@, UpdateOperand(u))]

\* compact_range keeping the newest operand as the value of the key
CompactRange_overwrite(s) ==
    IF s.pending = <<>> THEN s
    ELSE [s EXCEPT !.index = Some(Tail(s.pending[Len(s.pending)])),
                   !.pending = <<>>]

\* compact_range leaving the operands unmerged
CompactRange_noop(s) == s

\* db.compact_range(Some(DATA_INDEX), Some(DATA_INDEX)): the registered merge
\* operator folds the pending operands into the value of the key
CompactRange(s) ==
    IF s.pending = <<>> THEN s
    ELSE [s EXCEPT !.index = Some(merge_indexes(DATA_INDEX, s.index, s.pending)),
                   !.pending = <<>>]

\* The documents of update u (two, as in tests::ingest_update_file), the
\* update a document id belongs to, and a document with its stored fields
DocIdsOf(u) == {2 * u - 1, 2 * u}
UpdateOfDoc(d) == (d + 1) \div 2
Document(d) == [id |-> d, timestamp |-> 100 + d]

\* The stored bytes of a document, and the document read back from them
SerializeDoc(doc) == <<doc.id, doc.timestamp>>
DeserializeDoc(bytes) == [id |-> bytes[1], timestamp |-> bytes[2]]

\* A point lookup in a store state; a key with pending operands is merged on read
Lookup(s, key) ==
    IF key = DATA_SCHEMA THEN (IF s.schema = NoSchema THEN None ELSE Some(<<s.schema>>))
    ELSE IF key = DATA_INDEX
         THEN (IF s.pending = <<>> THEN s.index
               ELSE Some(merge_indexes(DATA_INDEX, s.index, s.pending)))
    ELSE IF UpdateOfDoc(key[2]) \in s.docs THEN Some(SerializeDoc(Document(key[2]))) ELSE None

Keys == {DATA_SCHEMA, DATA_INDEX} \cup {DocKey(d) : d \in UNION {DocIdsOf(u) : u \in Updates}}

\* DatabaseView::get(key): a lookup in the snapshot the view wraps
ViewGet(v, key) == Lookup(snaps[v], key)

\* view.document_by_id(id) on a view of store state s: the record read and
\* deserialized, None for the Err of a missing record
DocumentById(s, d) ==
    LET val == Lookup(s, DocKey(d))
    IN  IF val = None THEN None ELSE Some(DeserializeDoc(val[1]))

\* The postings of the merged index value of a store state
IndexOf(s) ==
    LET val == Lookup(s, DATA_INDEX)
    IN  IF val = None \/ val = Some(PANIC) THEN {} ELSE DeserializeSet(val[1])

\* Update u's data is in store state s: its document record and its posting
Contains(s, u) == u \in s.docs /\ Posting(1, u) \in IndexOf(s)

\* Store state s holds update u half applied: some of its data without the
\* rest, or its operand still waiting for the merge operator
Partial(s, u) ==
    \/ (u \in s.docs) # (Posting(1, u) \in IndexOf(s))
    \/ UpdateOperand(u) \in Range(s.pending)

----------------------------------------------------------------------------
\* Spec: an open Database, its writers and its readers

\* The Database as create leaves it: the schema entry written, the first
\* snapshot taken and published as the first view.
Init ==
    /\ store = PutSchema(EmptyStore, 1)
    /\ snaps = <<PutSchema(EmptyStore, 1)>>
    /\ view = 1
    /\ lock = 0
    /\ poisoned = FALSE
    /\ pc = [p \in Writers |-> "idle"]
    /\ upd = [p \in Writers |-> 0]
    /\ snap = [p \in Writers |-> 0]
    /\ nextUpd = 1
    /\ okUpd = {}
    /\ errUpd = {}
    /\ held = [r \in Readers |-> 0]
    /\ poisonErr = {}
    /\ applied = <<>>
    /\ precedes = {}
    /\ disk = [exists |-> FALSE, open |-> FALSE, store |-> EmptyStore]
    /\ cpc = [c \in Callers |-> "idle"]
    /\ carg = [c \in Callers |-> NoSchema]
    /\ cres = [c \in Callers |-> "none"]
    /\ mOps = <<>>
    /\ mSplit = 0
    /\ mOne = None
    /\ mTwo = None
    /\ mKey = DATA_INDEX

\* A caller hands a freshly built update to ingest_update_file
StartIngest(p) ==
    /\ pc[p] = "idle"
    /\ nextUpd <= MaxUpdates
    /\ upd' = [upd EXCEPT ![p] = nextUpd]
    /\ nextUpd' = nextUpd + 1
    /\ pc' = [pc EXCEPT ![p] = "lock"]
    /\ UNCHANGED <<store, snaps, view, lock, poisoned, snap, okUpd, errUpd, held>>
    /\ precedes' = precedes \cup {<<u, nextUpd>> : u \in okUpd \cup errUpd}
    /\ UNCHANGED applied
    /\ UNCHANGED poisonErr
    /\ UNCHANGED <<lifevars, mergevars>>

\* self.db.lock() taken without waiting for the holder
Lock_nowait(p) ==
    /\ pc[p] = "lock"
    /\ ~poisoned
    /\ lock' = p
    /\ pc' = [pc EXCEPT ![p] = "locked"]
    /\ UNCHANGED <<store, snaps, view, poisoned, upd, snap, nextUpd, okUpd, errUpd, held>>
    /\ UNCHANGED <<applied, precedes>>
    /\ UNCHANGED poisonErr
    /\ UNCHANGED <<lifevars, mergevars>>

\* self.db.lock() returns Ok(db)
Lock(p) ==
    /\ pc[p] = "lock"
    /\ lock = 0
    /\ ~poisoned
    /\ lock' = p
    /\ pc' = [pc EXCEPT ![p] = "locked"]
    /\ UNCHANGED <<store, snaps, view, poisoned, upd, snap, nextUpd, okUpd, errUpd, held>>
    /\ UNCHANGED <<applied, precedes>>
    /\ UNCHANGED poisonErr
    /\ UNCHANGED <<lifevars, mergevars>>

\* ingest_update_file taking the guard out of the PoisonError and going on
LockPoisoned_recover(p) ==
    /\ pc[p] = "lock"
    /\ lock = 0
    /\ poisoned
    /\ lock' = p
    /\ pc' = [pc EXCEPT ![p] = "locked"]
    /\ UNCHANGED <<store, snaps, view, poisoned, upd, snap, nextUpd, okUpd, errUpd, held>>
    /\ UNCHANGED <<poisonErr, applied, precedes>>
    /\ UNCHANGED <<lifevars, mergevars>>

\* self.db.lock() returns Err(e) on a poisoned mutex: return Err(e.to_string().into())
LockPoisoned(p) ==
    /\ pc[p] = "lock"
    /\ lock = 0
    /\ poisoned
    /\ errUpd' = errUpd \cup {upd[p]}
    /\ upd' = [upd EXCEPT ![p] = 0]
    /\ pc' = [pc EXCEPT ![p] = "idle"]
    /\ UNCHANGED <<store, snaps, view, lock, poisoned, snap, nextUpd, okUpd, held>>
    /\ UNCHANGED <<applied, precedes>>
    /\ poisonErr' = poisonErr \cup {<<"ingest", upd[p]>>}
    /\ UNCHANGED <<lifevars, mergevars>>

\* db.cf_handle("default") is None: expect panics while the guard is alive,
\* the unwinding drops the guard and poisons the mutex
NoCfPanic(p) ==
    /\ pc[p] = "locked"
    /\ lock' = 0
    /\ poisoned' = TRUE
    /\ pc' = [pc EXCEPT ![p] = "panicked"]
    /\ UNCHANGED <<store, snaps, view, upd, snap, nextUpd, okUpd, errUpd, held>>
    /\ UNCHANGED <<applied, precedes>>
    /\ UNCHANGED poisonErr
    /\ UNCHANGED <<lifevars, mergevars>>

\* ingest_update_file returning the store's error with the guard still alive
IngestFail_keeplock(p) ==
    /\ pc[p] = "locked"
    /\ errUpd' = errUpd \cup {upd[p]}
    /\ upd' = [upd EXCEPT ![p] = 0]
    /\ pc' = [pc EXCEPT ![p] = "idle"]
    /\ UNCHANGED <<store, snaps, view, lock, poisoned, snap, nextUpd, okUpd, held>>
    /\ UNCHANGED <<poisonErr, applied, precedes>>
    /\ UNCHANGED <<lifevars, mergevars>>

\* db.ingest_external_file_optimized(..)? returns Err: the store is untouched,
\* the guard is dropped, the error is returned
IngestFail(p) ==
    /\ pc[p] = "locked"
    /\ lock' = 0
    /\ errUpd' = errUpd \cup {upd[p]}
    /\ upd' = [upd EXCEPT ![p] = 0]
    /\ pc' = [pc EXCEPT ![p] = "idle"]
    /\ UNCHANGED <<store, snaps, view, poisoned, snap, nextUpd, okUpd, held>>
    /\ UNCHANGED <<applied, precedes>>
    /\ UNCHANGED poisonErr
    /\ UNCHANGED <<lifevars, mergevars>>

\* db.ingest_external_file_optimized(..)? returns Ok
IngestFile(p) ==
    /\ pc[p] = "locked"
    /\ store' = IngestExternalFile(store, upd[p])
    /\ pc' = [pc EXCEPT ![p] = "ingested"]
    /\ UNCHANGED <<snaps, view, lock, poisoned, upd, snap, nextUpd, okUpd, errUpd, held>>
    /\ applied' = Append(applied, upd[p])
    /\ UNCHANGED precedes
    /\ UNCHANGED poisonErr
    /\ UNCHANGED <<lifevars, mergevars>>

\* db.compact_range(Some(DATA_INDEX), Some(DATA_INDEX))
Compact(p) ==
    /\ pc[p] = "ingested"
    /\ store' = CompactRange(store)
    /\ pc' = [pc EXCEPT ![p] = "compacted"]
    /\ UNCHANGED <<snaps, view, lock, poisoned, upd, snap, nextUpd, okUpd, errUpd, held>>
    /\ UNCHANGED <<applied, precedes>>
    /\ UNCHANGED poisonErr
    /\ UNCHANGED <<lifevars, mergevars>>

\* ingest_update_file refreshing the snapshot of the published view in place
\* instead of taking a new one
TakeSnapshot_inplace(p) ==
    /\ pc[p] = "compacted"
    /\ snaps' = [snaps EXCEPT ![view] = store]
    /\ snap' = [snap EXCEPT ![p] = view]
    /\ lock' = 0
    /\ pc' = [pc EXCEPT ![p] = "unlocked"]
    /\ UNCHANGED <<store, view, poisoned, upd, nextUpd, okUpd, errUpd, held>>
    /\ UNCHANGED <<applied, precedes>>
    /\ UNCHANGED poisonErr
    /\ UNCHANGED <<lifevars, mergevars>>

\* ingest_update_file building its view from the published view plus its own
\* update instead of from a snapshot of the store
TakeSnapshot_delta(p) ==
    /\ pc[p] = "compacted"
    /\ snaps' = Append(snaps, CompactRange(IngestExternalFile(snaps[view], upd[p])))
    /\ snap' = [snap EXCEPT ![p] = Len(snaps) + 1]
    /\ lock' = 0
    /\ pc' = [pc EXCEPT ![p] = "unlocked"]
    /\ UNCHANGED <<store, view, poisoned, upd, nextUpd, okUpd, errUpd, held>>
    /\ UNCHANGED <<applied, precedes>>
    /\ UNCHANGED poisonErr
    /\ UNCHANGED <<lifevars, mergevars>>

\* Snapshot::new(db.clone()) as the value of the block; the guard is dropped
\* at the end of the block
TakeSnapshot(p) ==
    /\ pc[p] = "compacted"
    /\ snaps' = Append(snaps, store)
    /\ snap' = [snap EXCEPT ![p] = Len(snaps) + 1]
    /\ lock' = 0
    /\ pc' = [pc EXCEPT ![p] = "unlocked"]
    /\ UNCHANGED <<store, view, poisoned, upd, nextUpd, okUpd, errUpd, held>>
    /\ UNCHANGED <<applied, precedes>>
    /\ UNCHANGED poisonErr
    /\ UNCHANGED <<lifevars, mergevars>>

\* ingest_update_file publishing the view before the error is returned
ViewNewFail_published(p) ==
    /\ pc[p] = "unlocked"
    /\ view' = snap[p]
    /\ errUpd' = errUpd \cup {upd[p]}
    /\ upd' = [upd EXCEPT ![p] = 0]
    /\ snap' = [snap EXCEPT ![p] = 0]
    /\ pc' = [pc EXCEPT ![p] = "idle"]
    /\ UNCHANGED <<store, snaps, lock, poisoned, nextUpd, okUpd, held>>
    /\ UNCHANGED <<applied, precedes>>
    /\ UNCHANGED poisonErr
    /\ UNCHANGED <<lifevars, mergevars>>

\* DatabaseView::new(snapshot)? returns Err
ViewNewFail(p) ==
    /\ pc[p] = "unlocked"
    /\ errUpd' = errUpd \cup {upd[p]}
    /\ upd' = [upd EXCEPT ![p] = 0]
    /\ snap' = [snap EXCEPT ![p] = 0]
    /\ pc' = [pc EXCEPT ![p] = "idle"]
    /\ UNCHANGED <<store, snaps, view, lock, poisoned, nextUpd, okUpd, held>>
    /\ UNCHANGED <<applied, precedes>>
    /\ UNCHANGED poisonErr
    /\ UNCHANGED <<lifevars, mergevars>>

\* DatabaseView::new(snapshot)? returns Ok; self.view.set(view); Ok(())
Publish(p) ==
    /\ pc[p] = "unlocked"
    /\ view' = snap[p]
    /\ okUpd' = okUpd \cup {upd[p]}
    /\ upd' = [upd EXCEPT ![p] = 0]
    /\ snap' = [snap EXCEPT ![p] = 0]
    /\ pc' = [pc EXCEPT ![p] = "idle"]
    /\ UNCHANGED <<store, snaps, lock, poisoned, nextUpd, errUpd, held>>
    /\ UNCHANGED <<applied, precedes>>
    /\ UNCHANGED poisonErr
    /\ UNCHANGED <<lifevars, mergevars>>

\* A caller calls flush
StartFlush(p) ==
    /\ pc[p] = "idle"
    /\ pc' = [pc EXCEPT ![p] = "flock"]
    /\ UNCHANGED <<store, snaps, view, lock, poisoned, upd, snap, nextUpd, okUpd, errUpd, held>>
    /\ UNCHANGED <<applied, precedes>>
    /\ UNCHANGED poisonErr
    /\ UNCHANGED <<lifevars, mergevars>>

\* flush: self.db.lock() returns Ok(db)
FlushLock(p) ==
    /\ pc[p] = "flock"
    /\ lock = 0
    /\ ~poisoned
    /\ lock' = p
    /\ pc' = [pc EXCEPT ![p] = "flushing"]
    /\ UNCHANGED <<store, snaps, view, poisoned, upd, snap, nextUpd, okUpd, errUpd, held>>
    /\ UNCHANGED <<applied, precedes>>
    /\ UNCHANGED poisonErr
    /\ UNCHANGED <<lifevars, mergevars>>

\* flush: self.db.lock() returns Err(e) => Err(e.to_string().into())
FlushPoisoned(p) ==
    /\ pc[p] = "flock"
    /\ lock = 0
    /\ poisoned
    /\ pc' = [pc EXCEPT ![p] = "idle"]
    /\ UNCHANGED <<store, snaps, view, lock, poisoned, upd, snap, nextUpd, okUpd, errUpd, held>>
    /\ UNCHANGED <<applied, precedes>>
    /\ poisonErr' = poisonErr \cup {<<"flush", p>>}
    /\ UNCHANGED <<lifevars, mergevars>>

\* flush: Ok(db.flush(true)?), Ok or Err alike: the contents of the store are
\* as before, the guard is dropped on return
Flush(p) ==
    /\ pc[p] = "flushing"
    /\ lock' = 0
    /\ pc' = [pc EXCEPT ![p] = "idle"]
    /\ UNCHANGED <<store, snaps, view, poisoned, upd, snap, nextUpd, okUpd, errUpd, held>>
    /\ UNCHANGED <<applied, precedes>>
    /\ UNCHANGED poisonErr
    /\ UNCHANGED <<lifevars, mergevars>>

\* view() going through the writer mutex
ViewCall_locking(r) ==
    /\ lock = 0
    /\ held' = [held EXCEPT ![r] = view]
    /\ UNCHANGED <<store, snaps, view, lock, poisoned, pc, upd, snap, nextUpd, okUpd, errUpd>>
    /\ UNCHANGED <<applied, precedes>>
    /\ UNCHANGED poisonErr
    /\ UNCHANGED <<lifevars, mergevars>>

\* view(): self.view.get()
ViewCall(r) ==
    /\ held' = [held EXCEPT ![r] = view]
    /\ UNCHANGED <<store, snaps, view, lock, poisoned, pc, upd, snap, nextUpd, okUpd, errUpd>>
    /\ UNCHANGED <<applied, precedes>>
    /\ UNCHANGED poisonErr
    /\ UNCHANGED <<lifevars, mergevars>>

\* get(key): self.view().get(key): the lookup is answered from the published
\* view, the temporary reference to it is dropped, nothing of the Database changes
GetCall(r, key) ==
    /\ \E result \in {ViewGet(view, key)} : result = None \/ Len(result) = 1
    /\ UNCHANGED <<store, snaps, view, lock, poisoned, pc, upd, snap, nextUpd, okUpd, errUpd, held>>
    /\ UNCHANGED <<applied, precedes>>
    /\ UNCHANGED poisonErr
    /\ UNCHANGED <<lifevars, mergevars>>

Next ==
    \/ \E p \in Writers : StartIngest(p)
    \/ \E p \in Writers : Lock(p)
    \/ \E p \in Writers : LockPoisoned(p)
    \/ \E p \in Writers : NoCfPanic(p)
    \/ \E p \in Writers : IngestFail(p)
    \/ \E p \in Writers : IngestFile(p)
    \/ \E p \in Writers : Compact(p)
    \/ \E p \in Writers : TakeSnapshot(p)
    \/ \E p \in Writers : ViewNewFail(p)
    \/ \E p \in Writers : Publish(p)
    \/ \E p \in Writers : StartFlush(p)
    \/ \E p \in Writers : FlushLock(p)
    \/ \E p \in Writers : FlushPoisoned(p)
    \/ \E p \in Writers : Flush(p)
    \/ \E r \in Readers : ViewCall(r)
    \/ \E r \in Readers, key \in Keys : GetCall(r, key)

Spec == Init /\ [][Next]_vars

\* A step of call p after it was made: taking the lock or the lock's error,
\* and every statement of ingest_update_file and flush up to the return
CallStep(p) ==
    \/ Lock(p) \/ LockPoisoned(p)
    \/ NoCfPanic(p) \/ IngestFail(p) \/ IngestFile(p)
    \/ Compact(p) \/ TakeSnapshot(p)
    \/ ViewNewFail(p) \/ Publish(p)
    \/ FlushLock(p) \/ FlushPoisoned(p) \/ Flush(p)

\* A thread that is past self.db.lock() runs on: each statement it has reached
\* is eventually executed.
RunsOn(p) ==
    /\ WF_vars(NoCfPanic(p) \/ IngestFail(p) \/ IngestFile(p))
    /\ WF_vars(Compact(p))
    /\ WF_vars(TakeSnapshot(p))
    /\ WF_vars(ViewNewFail(p) \/ Publish(p))
    /\ WF_vars(Flush(p))

\* The mutex is fair: a thread blocked in self.db.lock() while the mutex is
\* free again and again is eventually the one that gets it.
FairLock(p) ==
    /\ SF_vars(Lock(p) \/ LockPoisoned(p))
    /\ SF_vars(FlushLock(p) \/ FlushPoisoned(p))

\* Spec with running threads and a fair mutex; whether a caller makes a call
\* at all is left open.
SpecFair == Init /\ [][Next]_vars /\ \A p \in Writers : RunsOn(p) /\ FairLock(p)

----------------------------------------------------------------------------
\* SpecLife: create, open and drop of a Database on one path

Schemas == {1, 2}

\* match db.get(DATA_SCHEMA)? { Some(value) => .., None => return Err(..) }
SchemaEntry(s) == Lookup(s, DATA_SCHEMA)

InitLife ==
    /\ store = PutSchema(EmptyStore, 1)
    /\ snaps = <<PutSchema(EmptyStore, 1)>>
    /\ view = 1
    /\ lock = 0
    /\ poisoned = FALSE
    /\ pc = [p \in Writers |-> "idle"]
    /\ upd = [p \in Writers |-> 0]
    /\ snap = [p \in Writers |-> 0]
    /\ nextUpd = 1
    /\ okUpd = {}
    /\ errUpd = {}
    /\ held = [r \in Readers |-> 0]
    /\ poisonErr = {}
    /\ applied = <<>>
    /\ precedes = {}
    /\ disk = [exists |-> FALSE, open |-> FALSE, store |-> EmptyStore]
    /\ cpc = [c \in Callers |-> "idle"]
    /\ carg = [c \in Callers |-> NoSchema]
    /\ cres = [c \in Callers |-> "none"]
    /\ mOps = <<>>
    /\ mSplit = 0
    /\ mOne = None
    /\ mTwo = None
    /\ mKey = DATA_INDEX

\* A call returns Err(kind); a store handle the call had opened is dropped
ReturnErr(c, kind, dropHandle) ==
    /\ cres' = [cres EXCEPT ![c] = kind]
    /\ cpc' = [cpc EXCEPT ![c] = "idle"]
    /\ carg' = [carg EXCEPT ![c] = NoSchema]
    /\ disk' = IF dropHandle THEN [disk EXCEPT !.open = FALSE] ELSE disk

\* create: path.exists() is true => return Err("File already exists at path ..")
CreateExists(c) ==
    /\ cpc[c] = "idle"
    /\ disk.exists
    /\ ReturnErr(c, "err_exists", FALSE)
    /\ UNCHANGED <<dbvars, mergevars>>

\* create: path.exists() is false
CreateCheck(c, schema) ==
    /\ cpc[c] = "idle"
    /\ ~disk.exists
    /\ cpc' = [cpc EXCEPT ![c] = "c_checked"]
    /\ carg' = [carg EXCEPT ![c] = schema]
    /\ UNCHANGED <<disk, cres>>
    /\ UNCHANGED <<dbvars, mergevars>>

\* create: DB::open_cf(opts, ..)? returns Err (the store's LOCK file is held by
\* a live handle, or an I/O error)
CreateOpenCfFail(c) ==
    /\ cpc[c] = "c_checked"
    /\ ReturnErr(c, "err_open", FALSE)
    /\ UNCHANGED <<dbvars, mergevars>>

\* create: DB::open_cf(opts, ..)? with create_if_missing(true) and no
\* error_if_exists: a missing store is created, an existing one is opened
CreateOpenCf(c) ==
    /\ cpc[c] = "c_checked"
    /\ ~disk.open
    /\ disk' = [disk EXCEPT !.exists = TRUE, !.open = TRUE]
    /\ cpc' = [cpc EXCEPT ![c] = "c_opened"]
    /\ UNCHANGED <<carg, cres>>
    /\ UNCHANGED <<dbvars, mergevars>>

\* create: schema.write_to_bin(..)? or db.put(DATA_SCHEMA, ..)? returns Err
CreatePutFail(c) ==
    /\ cpc[c] = "c_opened"
    /\ ReturnErr(c, "err_put", TRUE)
    /\ UNCHANGED <<dbvars, mergevars>>

\* create: db.put(DATA_SCHEMA, &schema_bytes)? returns Ok
CreatePut(c) ==
    /\ cpc[c] = "c_opened"
    /\ disk' = [disk EXCEPT !.store = PutSchema(@, carg[c])]
    /\ cpc' = [cpc EXCEPT ![c] = "c_put"]
    /\ UNCHANGED <<carg, cres>>
    /\ UNCHANGED <<dbvars, mergevars>>

\* create: DatabaseView::new(snapshot)? returns Err
CreateViewFail(c) ==
    /\ cpc[c] = "c_put"
    /\ ReturnErr(c, "err_view", TRUE)
    /\ UNCHANGED <<dbvars, mergevars>>

\* create: Ok(Database { db: Mutex::new(db), view })
CreateDone(c) ==
    /\ cpc[c] = "c_put"
    /\ cpc' = [cpc EXCEPT ![c] = "db"]
    /\ cres' = [cres EXCEPT ![c] = "created"]
    /\ carg' = [carg EXCEPT ![c] = NoSchema]
    /\ UNCHANGED disk
    /\ UNCHANGED <<dbvars, mergevars>>

\* open: DB::open_cf(opts, ..)? with create_if_missing(false) returns Err
\* (no store at the path, its LOCK file is held, or an I/O error)
OpenOpenCfFail(c) ==
    /\ cpc[c] = "idle"
    /\ ReturnErr(c, "err_open", FALSE)
    /\ UNCHANGED <<dbvars, mergevars>>

\* open: DB::open_cf(opts, ..)? returns Ok
OpenOpenCf(c) ==
    /\ cpc[c] = "idle"
    /\ disk.exists
    /\ ~disk.open
    /\ disk' = [disk EXCEPT !.open = TRUE]
    /\ cpc' = [cpc EXCEPT ![c] = "o_opened"]
    /\ UNCHANGED <<carg, cres>>
    /\ UNCHANGED <<dbvars, mergevars>>

\* open: db.get(DATA_SCHEMA)? is None => return Err("Database does not contain a schema")
OpenNoSchema(c) ==
    /\ cpc[c] = "o_opened"
    /\ SchemaEntry(disk.store) = None
    /\ ReturnErr(c, "err_noschema", TRUE)
    /\ UNCHANGED <<dbvars, mergevars>>

\* open: db.get(DATA_SCHEMA)? or Schema::read_from_bin(&*value)? returns Err
OpenSchemaFail(c) ==
    /\ cpc[c] = "o_opened"
    /\ ReturnErr(c, "err_schema", TRUE)
    /\ UNCHANGED <<dbvars, mergevars>>

\* open going on whatever db.get(DATA_SCHEMA) returned
OpenSchema_unchecked(c) ==
    /\ cpc[c] = "o_opened"
    /\ cpc' = [cpc EXCEPT ![c] = "o_schema"]
    /\ UNCHANGED <<disk, carg, cres>>
    /\ UNCHANGED <<dbvars, mergevars>>

\* open: db.get(DATA_SCHEMA)? is Some(value) and Schema::read_from_bin returns Ok
OpenSchema(c) ==
    /\ cpc[c] = "o_opened"
    /\ SchemaEntry(disk.store) # None
    /\ cpc' = [cpc EXCEPT ![c] = "o_schema"]
    /\ UNCHANGED <<disk, carg, cres>>
    /\ UNCHANGED <<dbvars, mergevars>>

\* open: DatabaseView::new(snapshot)? returns Err
OpenViewFail(c) ==
    /\ cpc[c] = "o_schema"
    /\ ReturnErr(c, "err_view", TRUE)
    /\ UNCHANGED <<dbvars, mergevars>>

\* open: Ok(Database { db: Mutex::new(db), view })
OpenDone(c) ==
    /\ cpc[c] = "o_schema"
    /\ cpc' = [cpc EXCEPT ![c] = "db"]
    /\ cres' = [cres EXCEPT ![c] = "opened"]
    /\ UNCHANGED <<disk, carg>>
    /\ UNCHANGED <<dbvars, mergevars>>

\* The Database and every view of it are dropped: the store handle is closed
DropDatabase(c) ==
    /\ cpc[c] = "db"
    /\ disk' = [disk EXCEPT !.open = FALSE]
    /\ cpc' = [cpc EXCEPT ![c] = "idle"]
    /\ UNCHANGED <<carg, cres>>
    /\ UNCHANGED <<dbvars, mergevars>>

NextLife ==
    \/ \E c \in Callers : CreateExists(c)
    \/ \E c \in Callers, schema \in Schemas : CreateCheck(c, schema)
    \/ \E c \in Callers : CreateOpenCfFail(c)
    \/ \E c \in Callers : CreateOpenCf(c)
    \/ \E c \in Callers : CreatePutFail(c)
    \/ \E c \in Callers : CreatePut(c)
    \/ \E c \in Callers : CreateViewFail(c)
    \/ \E c \in Callers : CreateDone(c)
    \/ \E c \in Callers : OpenOpenCfFail(c)
    \/ \E c \in Callers : OpenOpenCf(c)
    \/ \E c \in Callers : OpenNoSchema(c)
    \/ \E c \in Callers : OpenSchemaFail(c)
    \/ \E c \in Callers : OpenSchema(c)
    \/ \E c \in Callers : OpenViewFail(c)
    \/ \E c \in Callers : OpenDone(c)
    \/ \E c \in Callers : DropDatabase(c)

SpecLife == InitLife /\ [][NextLife]_vars

----------------------------------------------------------------------------
\* SpecMerge: the merge operator on every short sequence of blobs

\* The postings the blobs are made of: document 1 under both words, document 2 under one
MergePostings == {Posting(w, d) : w \in Words, d \in MergeDocs} \ {Posting(2, 2)}
PositiveBlobs == {Positive(S) : S \in SUBSET MergePostings}
NegativeBlobs == {Negative(S) : S \in SUBSET MergeDocs}
BlobBytes == {SerializeBlob(b) : b \in PositiveBlobs \cup NegativeBlobs}

SeqsUpTo(S, n) == UNION {[1..m -> S] : m \in 0..n}

InitMerge ==
    /\ store = PutSchema(EmptyStore, 1)
    /\ snaps = <<PutSchema(EmptyStore, 1)>>
    /\ view = 1
    /\ lock = 0
    /\ poisoned = FALSE
    /\ pc = [p \in Writers |-> "idle"]
    /\ upd = [p \in Writers |-> 0]
    /\ snap = [p \in Writers |-> 0]
    /\ nextUpd = 1
    /\ okUpd = {}
    /\ errUpd = {}
    /\ held = [r \in Readers |-> 0]
    /\ poisonErr = {}
    /\ applied = <<>>
    /\ precedes = {}
    /\ disk = [exists |-> FALSE, open |-> FALSE, store |-> EmptyStore]
    /\ cpc = [c \in Callers |-> "idle"]
    /\ carg = [c \in Callers |-> NoSchema]
    /\ cres = [c \in Callers |-> "none"]
    /\ mKey \in {DATA_INDEX, DATA_SCHEMA, DocKey(1)}
    /\ mOps \in SeqsUpTo(BlobBytes, IF mKey = DATA_INDEX THEN MaxOps ELSE MaxOpsBadKey)
    /\ mSplit \in IF mKey = DATA_INDEX THEN 0..Len(mOps) ELSE {0}
    /\ mOne = None
    /\ mTwo = None

\* The store merges B1..Bn in one invocation of the operator
MergeOnePass ==
    /\ mOne = None
    /\ mOne' = Some(merge_indexes(mKey, None, mOps))
    /\ UNCHANGED <<mOps, mSplit, mTwo, mKey>>
    /\ UNCHANGED <<dbvars, lifevars>>

\* The store merges B1..Bk, then merges the result, as the existing value,
\* with Bk+1..Bn
MergeTwoPass ==
    /\ mOne # None
    /\ mTwo = None
    /\ LET first == merge_indexes(mKey, None, SubSeq(mOps, 1, mSplit))
       IN  mTwo' = Some(IF first = PANIC THEN PANIC
                        ELSE merge_indexes(mKey, Some(first),
                                           SubSeq(mOps, mSplit + 1, Len(mOps))))
    /\ UNCHANGED <<mOps, mSplit, mOne, mKey>>
    /\ UNCHANGED <<dbvars, lifevars>>

NextMerge ==
    \/ MergeOnePass
    \/ MergeTwoPass

SpecMerge == InitMerge /\ [][NextMerge]_vars

----------------------------------------------------------------------------
\* Properties

InWriteSection(p) == pc[p] \in {"locked", "ingested", "compacted", "flushing"}

\* C1: once ingest_update_file(U) has returned Ok, the published view's
\* snapshot contains U's data, whatever other ingestions do afterwards.
C1_VisibleAfterReturn ==
    \A u \in okUpd : Contains(snaps[view], u)

\* C2: a view a reader holds gives, for every key, the same lookup result
\* after every step of every writer and reader as before it.
C2_SnapshotImmutable ==
    [][\A r \in Readers :
          (held[r] # 0 /\ held'[r] = held[r])
              => \A key \in Keys : ViewGet(held[r], key)' = ViewGet(held[r], key)]_vars

\* C2 witness: a reader holds a superseded view while an ingestion has changed
\* the store and is between its file ingest and its publication.
C2_Witness ==
    \E r \in Readers, p \in Writers :
        /\ held[r] # 0
        /\ held[r] # view
        /\ pc[p] \in {"ingested", "compacted", "unlocked"}
        /\ store # snaps[held[r]]

\* C3: a view obtained by view() contains the data of every ingestion
\* completed before the call, and holds no ingestion half applied.
C3_AtomicVisibility ==
    [][\A r \in Readers :
          ViewCall(r) =>
              /\ \A u \in okUpd : Contains(snaps'[held'[r]], u)
              /\ \A u \in Updates : ~Partial(snaps'[held'[r]], u)]_vars

\* C4: the published pointer changes only in the last step of a call that
\* returns Ok, to that call's snapshot; a step that returns Err leaves it as it is.
C4_PublishOnlyOnSuccess ==
    [][/\ view' # view =>
            \E p \in Writers :
                /\ pc[p] = "unlocked" /\ pc'[p] = "idle"
                /\ view' = snap[p]
                /\ upd[p] \in okUpd' /\ upd[p] \notin errUpd'
       /\ \A p \in Writers :
            (upd[p] # 0 /\ upd[p] \in errUpd') => view' = view]_vars

\* C4 witness: an ingestion has failed after its data went into the store,
\* and the published view does not hold that data.
C4_Witness ==
    \E u \in errUpd : u \in store.docs /\ ~Contains(snaps[view], u)

\* C5: none of the data of an update whose ingestion returned Err is in the
\* store or in the published view.
C5_FailedIngestAllOrNothing ==
    \A u \in errUpd : u \notin store.docs /\ ~Contains(store, u) /\ ~Contains(snaps[view], u)

\* C9: at most one writer is inside its store-mutating section.
C9_WritersExclusive ==
    /\ Cardinality({p \in Writers : InWriteSection(p)}) <= 1
    /\ \A p \in Writers : InWriteSection(p) => lock = p

\* C9 witness: a writer is between file ingest and compaction while another
\* writer waits for the lock.
C9_Witness ==
    \E p, q \in Writers : pc[p] = "ingested" /\ pc[q] \in {"lock", "flock"}

\* C10: in every state, a view() and a get() call of every reader can take
\* their step, also while a writer holds the lock.
C10_ReadersNeverWait ==
    \A r \in Readers :
        /\ ENABLED ViewCall(r)
        /\ \A key \in Keys : ENABLED GetCall(r, key)

\* C10 witness: a reader holds the published view of a completed ingestion
\* while a writer holds the lock in the middle of the next one.
C10_Witness ==
    \E r \in Readers, p \in Writers :
        /\ lock = p /\ pc[p] = "ingested"
        /\ held[r] = view /\ view # 1

\* C6: a create that finds the store existing when it opens it does not go on,
\* and a schema entry once written is never changed.
C6_CreateGuard ==
    [][/\ \A c \in Callers :
            (cpc[c] = "c_checked" /\ disk.exists) => cpc'[c] # "c_opened"
       /\ SchemaEntry(disk.store) # None => disk'.store = disk.store]_vars

\* C7: an open call gets past the schema check, or yields a Database, only
\* when the store has a schema entry.
C7_OpenGuard ==
    \A c \in Callers :
        (cpc[c] = "o_schema" \/ (cpc[c] = "db" /\ cres[c] = "opened"))
            => SchemaEntry(disk.store) # None

\* C7 witness: open has returned the missing-schema error on an existing
\* store without schema entry.
C7_Witness ==
    \E c \in Callers :
        /\ cres[c] = "err_noschema" /\ cpc[c] = "idle"
        /\ disk.exists /\ SchemaEntry(disk.store) = None

\* C8: for the index key, one pass over B1..Bn and two passes split at k
\* return the same bytes.
C8_MergeConvergence ==
    (mKey = DATA_INDEX /\ mOne # None /\ mTwo # None) => mOne = mTwo

\* C8 witness: both results are there for three blobs, a Negative one among
\* them, split inside the sequence, and the result is not empty.
C8_Witness ==
    /\ mKey = DATA_INDEX /\ mOne # None /\ mTwo # None
    /\ Len(mOps) = 3 /\ mSplit \in 1..2
    /\ \E i \in 1..3 : mOps[i][1] = TagNegative
    /\ mOne[1] # PANIC /\ mOne[1][1] > 0

----------------------------------------------------------------------------
\* Order of application

\* u was ingested into the store before v
AppliedBefore(u, v) ==
    \E i, j \in 1..Len(applied) : i < j /\ applied[i] = u /\ applied[j] = v

\* C11 (as claimed): the updates are applied in the order their calls were
\* made; update ids are handed out in call order.
C11_CallOrder ==
    \A i, j \in 1..Len(applied) : i < j => applied[i] < applied[j]

\* C11 (amended): updates are applied one at a time, each once and by the
\* call that holds the lock, and two calls of which one had returned before
\* the other was made are applied in call order.
C11_AppliedOrder ==
    /\ \A i, j \in 1..Len(applied) : i # j => applied[i] # applied[j]
    /\ Range(applied) = store.docs
    /\ \A p \in Writers :
            pc[p] \in {"ingested", "compacted"} =>
                lock = p /\ Len(applied) > 0 /\ applied[Len(applied)] = upd[p]
    /\ \A pr \in precedes :
            (pr[1] \in Range(applied) /\ pr[2] \in Range(applied))
                => AppliedBefore(pr[1], pr[2])

\* C11 witness: two updates are applied, the first by a call that had
\* returned before the second was made.
C11_Witness ==
    /\ Len(applied) = 2
    /\ <<applied[1], applied[2]>> \in precedes

----------------------------------------------------------------------------
\* Poisoned lock

\* C12: once the lock is poisoned the store is never changed and no snapshot
\* is taken; a call that leaves its wait for the lock then returns its error,
\* holding no lock and publishing nothing.
C12_PoisonIsError ==
    [][poisoned =>
          /\ store' = store /\ snaps' = snaps /\ applied' = applied
          /\ \A p \in Writers :
                (pc[p] \in {"lock", "flock"} /\ pc'[p] # pc[p]) =>
                    /\ pc'[p] = "idle"
                    /\ lock' = 0 /\ view' = view
                    /\ pc[p] = "lock" => (upd[p] \in errUpd' /\ <<"ingest", upd[p]>> \in poisonErr')
                    /\ pc[p] = "flock" => <<"flush", p>> \in poisonErr']_vars

\* C12 witness: on a poisoned lock an ingestion and a flush have both
\* returned the error, and the ingestion's update is not in the store.
C12_Witness ==
    /\ poisoned
    /\ \E u \in Updates : <<"ingest", u>> \in poisonErr /\ u \in errUpd /\ u \notin store.docs
    /\ \E p \in Writers : <<"flush", p>> \in poisonErr

----------------------------------------------------------------------------
\* Round trip

\* C13: a view returned by view() gives back, for every document of every
\* update whose ingestion has returned Ok, a document equal to the one written.
C13_RoundTrip ==
    [][\A r \in Readers :
          ViewCall(r) =>
              \A u \in okUpd : \A d \in DocIdsOf(u) :
                  DocumentById(snaps'[held'[r]], d) = Some(Document(d))]_vars

----------------------------------------------------------------------------
\* The merge operator

\* C14: invoked for a key other than DATA_INDEX, the merge operator panics:
\* neither pass has a merged value.
C14_WrongKeyPanics ==
    mKey # DATA_INDEX =>
        /\ mOne \in {None, Some(PANIC)}
        /\ mTwo \in {None, Some(PANIC)}

\* C14 witness: the operator has been invoked with operands for a key that
\* is not DATA_INDEX and has panicked.
C14_Witness ==
    mKey # DATA_INDEX /\ Len(mOps) >= 1 /\ mOne = Some(PANIC) /\ mTwo = Some(PANIC)

\* The blobs a sequence of operand bytes stands for
BlobsOf(operands) == [i \in 1..Len(operands) |-> DeserializeBlob(operands[i])]

\* What merging a sequence of blobs in the given order means, said posting by
\* posting: a posting is in the result when some Positive blob adds it and no
\* later Negative blob names its document.
MergedInOrder(blobs) ==
    {p \in UNION {blobs[i].set : i \in {k \in 1..Len(blobs) : blobs[k].sign = "Positive"}} :
        \E i \in 1..Len(blobs) :
            /\ blobs[i].sign = "Positive" /\ p \in blobs[i].set
            /\ \A j \in (i + 1)..Len(blobs) :
                  ~(blobs[j].sign = "Negative" /\ DocOf(p) \in blobs[j].set)}

\* C15: the value returned for the index key is the merge, in order, of the
\* existing value as a Positive blob followed by the operands as presented,
\* each with its own sign: in the single pass (no existing value) and in the
\* second of the two passes (the first pass's result as existing value).
C15_FeedOrder ==
    mKey = DATA_INDEX =>
        /\ mOne # None => mOne[1] = SerializeSet(MergedInOrder(BlobsOf(mOps)))
        /\ mTwo # None =>
              mTwo[1] = SerializeSet(MergedInOrder(
                  <<Positive(MergedInOrder(BlobsOf(SubSeq(mOps, 1, mSplit))))>>
                      \o BlobsOf(SubSeq(mOps, mSplit + 1, Len(mOps)))))

\* C15 witness: the second pass had a non-empty existing value, then a
\* Negative and a Positive operand, and its result is not empty.
C15_Witness ==
    /\ mKey = DATA_INDEX /\ mTwo # None
    /\ Len(mOps) = 3 /\ mSplit = 1
    /\ mOps[1][1] = TagPositive /\ mOps[1][2] > 0
    /\ mOps[2][1] = TagNegative /\ mOps[2][2] > 0
    /\ mOps[3][1] = TagPositive
    /\ mTwo[1][1] > 0

----------------------------------------------------------------------------
\* The canonical index entry

\* C16: the index key has at most one value; the stored value changes only to
\* what the merge operator returns for the old value and the pending operands,
\* and the value a lookup gives changes only by one update's operand merged
\* into the value it gave before.
C16_IndexOnlyMerged ==
    [][/\ Len(store'.index) <= 1 /\ Len(Lookup(store', DATA_INDEX)) <= 1
       /\ store'.index # store.index =>
            /\ store.pending # <<>> /\ store'.pending = <<>>
            /\ store'.index = Some(merge_indexes(DATA_INDEX, store.index, store.pending))
       /\ Lookup(store', DATA_INDEX) # Lookup(store, DATA_INDEX) =>
            \E u \in Updates :
                /\ store'.pending = Append(store.pending, UpdateOperand(u))
                /\ Lookup(store', DATA_INDEX) =
                      Some(merge_indexes(DATA_INDEX, Lookup(store, DATA_INDEX),
                                         <<UpdateOperand(u)>>))]_vars

\* C16 witness: the index value is the merge of two updates' blobs, with no
\* operand pending.
C16_Witness ==
    /\ store.index # None /\ store.pending = <<>>
    /\ Cardinality(IndexOf(store)) = 2

----------------------------------------------------------------------------
\* The schema entry

\* C17: the store and every snapshot taken give, under DATA_SCHEMA, the value
\* the first view (the one made at creation) gives, and that value is there.
C17_SchemaImmutable ==
    /\ ViewGet(1, DATA_SCHEMA) # None
    /\ Lookup(store, DATA_SCHEMA) = ViewGet(1, DATA_SCHEMA)
    /\ \A v \in 1..Len(snaps) : ViewGet(v, DATA_SCHEMA) = ViewGet(1, DATA_SCHEMA)

\* C17 witness: after two ingestions and a flush in progress, a reader holds
\* a superseded view and a newer one is published.
C17_Witness ==
    /\ Len(applied) = 2 /\ Len(snaps) = 3
    /\ \E p \in Writers : pc[p] = "flushing"
    /\ \E r \in Readers : held[r] \notin {0, view}

----------------------------------------------------------------------------
\* Snapshots and compaction

\* C18: a snapshot is taken only by the call that holds the lock, after its
\* compaction, of a store with that call's update merged and no operand
\* pending; the view a call publishes wraps the snapshot that call took.
C18_SnapshotAfterCompaction ==
    [][/\ snaps' # snaps =>
            \E p \in Writers :
                /\ lock = p /\ pc[p] = "compacted"
                /\ store.pending = <<>> /\ Contains(store, upd[p])
                /\ snaps' = Append(snaps, store)
                /\ snap'[p] = Len(snaps')
       /\ view' # view =>
            \E p \in Writers :
                /\ view' = snap[p] /\ lock # p
                /\ snaps[snap[p]].pending = <<>>
                /\ Contains(snaps[snap[p]], upd[p])]_vars

\* C18 witness: the published view is one an ingestion published, without
\* pending operands, while the store has the next ingestion's operand pending.
C18_Witness ==
    /\ view # 1 /\ snaps[view].pending = <<>> /\ snaps[view].index # None
    /\ store.pending # <<>>
    /\ \E p \in Writers : pc[p] = "ingested"

----------------------------------------------------------------------------
\* Views and the order of ingestions

\* The ingestions whose data the snapshot s contains
ContainedIn(s) == {u \in 1..MaxUpdates : Contains(s, u)}

\* The first k ingestions applied to the store, in lock-acquisition order
AppliedPrefix(k) == {applied[i] : i \in 1..k}

IsAppliedPrefix(s) ==
    /\ \E k \in 0..Len(applied) : ContainedIn(s) = AppliedPrefix(k)
    /\ \A u \in 1..MaxUpdates : ~Partial(s, u)

\* C19: the ingestions contained in the published view, and in every view a
\* reader holds, are a prefix of the ingestions applied to the store in
\* lock-acquisition order: no view has a later one while missing an earlier.
C19_ViewIsPrefix ==
    /\ IsAppliedPrefix(snaps[view])
    /\ \A r \in Readers : held[r] # 0 => IsAppliedPrefix(snaps[held[r]])

\* C19 witness: two ingestions overlapped and both returned Ok; the published
\* view holds exactly the first applied one, a reader holds the view with both.
C19_Witness ==
    /\ Len(applied) = 2
    /\ <<applied[1], applied[2]>> \notin precedes
    /\ okUpd = {applied[1], applied[2]}
    /\ ContainedIn(snaps[view]) = {applied[1]}
    /\ \E r \in Readers : held[r] # 0 /\ ContainedIn(snaps[held[r]]) = okUpd

----------------------------------------------------------------------------
\* Release of the writer lock

Waiting(p) == pc[p] \in {"lock", "flock"}

\* The call of p is over: it returned, or it unwound from the panic
Over(p) == pc[p] \in {"idle", "panicked"}

\* C20: the lock is held only by a call between its lock() and the end of its
\* locked block, never by a call that has returned or that builds or publishes
\* its view; while a call waits some call can take a step; and with running
\* threads and a fair lock every waiting call gets past the lock and ends.
C20_LockReleased ==
    /\ [](\A p \in Writers : lock = p => InWriteSection(p))
    /\ [](\A p \in Writers : pc[p] = "unlocked" => lock # p /\ snap[p] # 0)
    /\ [][view' # view => \E p \in Writers : pc[p] = "unlocked" /\ lock # p]_vars
    /\ []((\E p \in Writers : Waiting(p)) => ENABLED (\E q \in Writers : CallStep(q)))
    /\ \A p \in Writers : Waiting(p) ~> Over(p)

\* C20 witness: a call that took its snapshot has released the lock and is
\* building its view while another call, which had to wait, holds the lock.
C20_Witness ==
    \E p, q \in Writers :
        /\ p # q
        /\ pc[p] = "unlocked" /\ upd[p] = 1
        /\ lock = q /\ pc[q] = "compacted" /\ upd[q] = 2

====
